---- MODULE Spec2Model ----
\* The uncertainty-partitioning notebook (docs/notebooks/partitioning.ipynb)
\* and the dependency-review workflow (.github/workflows/dependency-review.yml)
\* as state machines.
EXTENDS Integers, Sequences, FiniteSets, TLC

\* ------------------------------------------------------------------ bounds
MaxModels == 2
MaxScenarios == 2
MaxTimes == 2
MaxCalls == 2

VARIABLES
    \* cell 2: the three input lists and the fetch loop
    models, members, scenarios,
    pc,          \* where the script is: "loop", "fetching", a stage, "done", "error"
    mi, si,      \* position of the outer (zip) and inner (scenarios) loop
    inflight,    \* URLs of the read_csv calls that have not returned
    issued,      \* every URL handed to read_csv, in order
    data,        \* the list `data`
    running,     \* the stage whose library call has not returned, or "none"
    started,     \* stages entered, in order
    completed,   \* stages that returned normally, in order
    err,         \* the exception that ended the run, or "none"
    uncertainties,
    \* cell 8: one call of graph_fraction_of_total_variance
    heap,        \* the DataArray objects alive, by name
    frame,       \* the arguments and locals of the call
    gpc,         \* the statement the call is at
    fills,       \* the fill_between calls made on the axes by this call
    drawn,       \* what each completed call drew, in order
    \* the dependency-review workflow
    wfEvent,     \* the repository event delivered
    wfState,     \* "waiting", "not triggered", "running", "completed"
    stepIdx,     \* the step the job is at
    stepBusy,    \* whether that step is executing
    stepLog,     \* name, outcome and conclusion of every step gone through
    jobConclusion

pipeVars == <<models, members, scenarios, pc, mi, si, inflight, issued, data,
              running, started, completed, err, uncertainties>>

graphVars == <<heap, frame, gpc, fills, drawn>>

wfVars == <<wfEvent, wfState, stepIdx, stepBusy, stepLog, jobConclusion>>

vars == <<pipeVars, graphVars, wfVars>>

\* ---------------------------------------------------------------- binary64
\* numpy float64 arithmetic as the notebook uses it: a finite non-zero double
\* is (-1)^neg * (hi * 2^LoBits + lo) * 2^exp with a MantBits-bit mantissa
\* whose leading bit is set; results round to nearest, ties to even.
MantBits == 53
LoBits == 27
LimbBits == 24
ChunkBits == 20

Pow2(n) == 2^n

\* the w low bits of n, most significant first
BitsOf(n, w) == [k \in 1..w |-> (n \div Pow2(w - k)) % 2]

NatOf[bits \in Seq({0, 1})] ==
    IF bits = <<>> THEN 0
    ELSE IF Len(bits) = 1 THEN bits[1]
    ELSE LET h == Len(bits) \div 2
         IN  NatOf[SubSeq(bits, 1, h)] * Pow2(Len(bits) - h)
             + NatOf[SubSeq(bits, h + 1, Len(bits))]

Zeros(n) == [k \in 1..n |-> 0]

\* without its leading zeros
Strip(bits) ==
    IF \A k \in 1..Len(bits) : bits[k] = 0 THEN <<>>
    ELSE LET f == CHOOSE k \in 1..Len(bits) :
                      bits[k] = 1 /\ \A j \in 1..(k - 1) : bits[j] = 0
         IN  SubSeq(bits, f, Len(bits))

PadLeft(bits, n) == Zeros(n - Len(bits)) \o bits

\* a bit string as LimbBits-bit integers, most significant first
LimbsOf(bits, nl) ==
    LET p == PadLeft(bits, LimbBits * nl)
    IN  [i \in 1..nl |-> NatOf[SubSeq(p, LimbBits * (i - 1) + 1, LimbBits * i)]]

BitsOfLimbs(limbs) ==
    [k \in 1..(LimbBits * Len(limbs)) |->
        (limbs[(k - 1) \div LimbBits + 1]
            \div Pow2(LimbBits - 1 - ((k - 1) % LimbBits))) % 2]

NumLimbs(a, b) ==
    ((IF Len(a) > Len(b) THEN Len(a) ELSE Len(b)) \div LimbBits) + 2

\* limbs of a + m * b + c from limb k down (a - b, a >= b, for m = -1)
AddLimbs[a \in Seq(Int), b \in Seq(Int), m \in Int, k \in Nat, c \in Int] ==
    IF k = 0 THEN <<>>
    ELSE LET s == a[k] + m * b[k] + c
             d == s % Pow2(LimbBits)
         IN  Append(AddLimbs[a, b, m, k - 1, (s - d) \div Pow2(LimbBits)], d)

AddBits(a, b) ==
    LET nl == NumLimbs(a, b)
    IN  Strip(BitsOfLimbs(AddLimbs[LimbsOf(a, nl), LimbsOf(b, nl), 1, nl, 0]))

\* a - b for a >= b
SubBits(a, b) ==
    LET nl == NumLimbs(a, b)
    IN  Strip(BitsOfLimbs(AddLimbs[LimbsOf(a, nl), LimbsOf(b, nl), -1, nl, 0]))

\* a < b for bit strings without leading zeros
LessBits(a, b) ==
    IF Len(a) # Len(b) THEN Len(a) < Len(b)
    ELSE \E k \in 1..Len(a) :
            a[k] < b[k] /\ \A j \in 1..(k - 1) : a[j] = b[j]

FZero == [cls |-> "zero", neg |-> FALSE, hi |-> 0, lo |-> 0, exp |-> 0]
FNaN == [cls |-> "nan", neg |-> FALSE, hi |-> 0, lo |-> 0, exp |-> 0]
FInf(neg) == [cls |-> "inf", neg |-> neg, hi |-> 0, lo |-> 0, exp |-> 0]

\* exact number (-1)^neg * bits * 2^exp -> nearest double, ties to even
Round(neg, bits0, exp) ==
    LET bits == Strip(bits0)
        n == Len(bits)
    IN  IF n = 0 THEN FZero
        ELSE IF n <= MantBits
        THEN LET m == bits \o Zeros(MantBits - n)
             IN  [cls |-> "fin", neg |-> neg,
                  hi |-> NatOf[SubSeq(m, 1, MantBits - LoBits)],
                  lo |-> NatOf[SubSeq(m, MantBits - LoBits + 1, MantBits)],
                  exp |-> exp - (MantBits - n)]
        ELSE LET keep == SubSeq(bits, 1, MantBits)
                 rest == SubSeq(bits, MantBits + 1, n)
                 sticky == \E k \in 2..Len(rest) : rest[k] = 1
                 up == rest[1] = 1 /\ (sticky \/ keep[MantBits] = 1)
                 m1 == IF up THEN AddBits(keep, <<1>>) ELSE keep
                 m == SubSeq(m1, 1, MantBits)
                 e == exp + (n - MantBits) + (IF Len(m1) > MantBits THEN 1 ELSE 0)
             IN  [cls |-> "fin", neg |-> neg,
                  hi |-> NatOf[SubSeq(m, 1, MantBits - LoBits)],
                  lo |-> NatOf[SubSeq(m, MantBits - LoBits + 1, MantBits)],
                  exp |-> e]

MantOf(x) == BitsOf(x.hi, MantBits - LoBits) \o BitsOf(x.lo, LoBits)

\* the next ChunkBits quotient bits of r / b, and the remainder left
Chunk(r, b) ==
    [q |-> (r * Pow2(ChunkBits)) \div b, r |-> (r * Pow2(ChunkBits)) % b]

\* a / b for naturals a, b < 2^11 held as doubles
FDivNat(a, b) ==
    IF b = 0 THEN (IF a = 0 THEN FNaN ELSE FInf(FALSE))
    ELSE LET c1 == Chunk(a % b, b)
             c2 == Chunk(c1.r, b)
             c3 == Chunk(c2.r, b)
             c4 == Chunk(c3.r, b)
             bits == BitsOf(a \div b, 31) \o BitsOf(c1.q, ChunkBits)
                       \o BitsOf(c2.q, ChunkBits) \o BitsOf(c3.q, ChunkBits)
                       \o BitsOf(c4.q, ChunkBits)
                       \o <<IF c4.r = 0 THEN 0 ELSE 1>>
         IN  Round(FALSE, bits, 0 - (4 * ChunkBits + 1))

\* bits * m for a natural m < 2^7
MulBits(bits, m) ==
    LET nl == NumLimbs(bits, bits)
    IN  Strip(BitsOfLimbs(AddLimbs[Zeros(nl), LimbsOf(bits, nl), m, nl, 0]))

\* x * k for a natural k held as a double
FMulNat(x, k) ==
    IF x.cls = "nan" THEN FNaN
    ELSE IF x.cls = "inf" THEN (IF k = 0 THEN FNaN ELSE x)
    ELSE IF x.cls = "zero" \/ k = 0 THEN FZero
    ELSE Round(x.neg, MulBits(MantOf(x), k), x.exp)

FNeg(x) == IF x.cls \in {"fin", "inf"} THEN [x EXCEPT !.neg = ~x.neg] ELSE x

FAdd(x, y) ==
    IF x.cls = "nan" \/ y.cls = "nan" THEN FNaN
    ELSE IF x.cls = "inf" THEN (IF y.cls = "inf" /\ y.neg # x.neg THEN FNaN ELSE x)
    ELSE IF y.cls = "inf" THEN y
    ELSE IF x.cls = "zero" THEN y
    ELSE IF y.cls = "zero" THEN x
    ELSE LET e == IF x.exp < y.exp THEN x.exp ELSE y.exp
             a == MantOf(x) \o Zeros(x.exp - e)
             b == MantOf(y) \o Zeros(y.exp - e)
         IN  IF x.neg = y.neg THEN Round(x.neg, AddBits(a, b), e)
             ELSE IF LessBits(Strip(a), Strip(b)) THEN Round(y.neg, SubBits(b, a), e)
             ELSE Round(x.neg, SubBits(a, b), e)

FNat(n) == Round(FALSE, BitsOf(n, 31), 0)

FSub(x, y) == FAdd(x, FNeg(y))

\* |x| <= |y| for numbers that are not NaN
FMagLe(x, y) ==
    IF x.cls = "zero" THEN TRUE
    ELSE IF y.cls = "zero" THEN FALSE
    ELSE IF y.cls = "inf" THEN TRUE
    ELSE IF x.cls = "inf" THEN FALSE
    ELSE \/ x.exp < y.exp
         \/ x.exp = y.exp /\ x.hi < y.hi
         \/ x.exp = y.exp /\ x.hi = y.hi /\ x.lo <= y.lo

\* x <= y (false when either is NaN)
FLe(x, y) ==
    /\ x.cls # "nan"
    /\ y.cls # "nan"
    /\ IF x.neg = y.neg
       THEN (IF x.neg THEN FMagLe(y, x) ELSE FMagLe(x, y))
       ELSE x.neg

\* ------------------------------------------------------------ cell 1 and 2
host == "https://raw.githubusercontent.com/IPCC-WG1/Atlas/main/datasets-aggregated-regionally/data/CMIP6/CMIP6_tas_land/"

\* a file name with model and scenario in each other's place
PatFormatSwapped(model, scenario, member) ==
    "CMIP6_" \o scenario \o "_" \o model \o "_" \o member \o ".csv"

\* pat.format(model=..., scenario=..., member=...)
PatFormat(model, scenario, member) ==
    "CMIP6_" \o model \o "_" \o scenario \o "_" \o member \o ".csv"

Min(p, q) == IF p < q THEN p ELSE q

\* a zip that raises ValueError on lists of unequal length, whatever the flag
zipStrict(xs, ys, strict) ==
    [pairs |-> [k \in 1..Min(Len(xs), Len(ys)) |-> <<xs[k], ys[k]>>],
     raises |-> Len(xs) # Len(ys)]

\* zip(xs, ys, strict=...): the pairs it yields, and whether it raises
\* ValueError once the shorter list is exhausted
zip(xs, ys, strict) ==
    [pairs |-> [k \in 1..Min(Len(xs), Len(ys)) |-> <<xs[k], ys[k]>>],
     raises |-> strict /\ Len(xs) # Len(ys)]

ModelNames == {"ACCESS-CM2", "CanESM5"}
MemberNames == {"r1i1p1f1", "r1i1p2f1"}
ScenarioNames == {"ssp245", "ssp585"}

SeqsUpTo(S, n) == UNION {[1..k -> S] : k \in 0..n}

\* the pairs the outer loop iterates over
Zipped == zip(models, members, FALSE)

\* what read_csv(...)["world"] can do: return a series or raise
FetchOutcomes == {"ok", "network error", "malformed CSV", "missing world column"}

Stages == <<"combine", "resample", "partition", "plot">>

StageIndex(s) == CHOOSE k \in 1..Len(Stages) : Stages[k] = s

\* an order of the cells that leaves one out
NextStageSkip(s) ==
    IF StageIndex(s) + 1 >= Len(Stages) THEN "done" ELSE Stages[StageIndex(s) + 2]

\* the cell after cell s
NextStage(s) ==
    IF StageIndex(s) = Len(Stages) THEN "done" ELSE Stages[StageIndex(s) + 1]

\* ------------------------------------------------------------------ cell 8
\* A DataArray over (uncertainty, time): its time axis, its uncertainty
\* coordinate, one row of values per uncertainty kind, and its other
\* coordinates by name.
Kinds == <<"model", "scenario", "variability", "total">>

colors ==
    [variability |-> "#DC551A", model |-> "#2B2B8B", scenario |-> "#275620",
     total |-> "k"]

MakeVariance(time, cols) ==
    [time |-> time,
     uncertainty |-> Kinds,
     values |-> [k \in 1..Len(Kinds) |-> [t \in 1..Len(time) |-> cols[t][k]]],
     coords |-> <<>>]

\* da.sel(uncertainty=kind)
SelUncertainty(da, kind) ==
    da.values[CHOOSE k \in 1..Len(da.uncertainty) : da.uncertainty[k] = kind]

\* the variances of one time step, in the order of Kinds
ModelVar == {1, 2}
ScenarioVar == {1, 9}
VariabilityVar == {0, 1}
Columns ==
    {<<m, s, v, m + s + v>> : m \in ModelVar, s \in ScenarioVar, v \in VariabilityVar}
        \cup {<<0, 0, 0, 0>>, <<0, 1, 1, 2>>, <<1, 1, 1, 0>>}
CellValues == {c[k] : c \in Columns, k \in 1..Len(Kinds)}

\* a / b * 100 in float64
Fraction(a, b) == FMulNat(FDivNat(a, b), 100)

\* the arithmetic of the normalization and of the stacking, tabulated
PctTable == [a \in CellValues, b \in CellValues |-> Fraction(a, b)]
PctValues == {PctTable[a, b] : a \in CellValues, b \in CellValues}
AddTable == [x \in PctValues, y \in PctValues |-> FAdd(x, y)]
F100 == FNat(100)

\* every row divided by the total of the first time step
NormalizeByFirst(da) ==
    LET total == SelUncertainty(da, "total")
    IN  [da EXCEPT !.values =
            [k \in 1..Len(da.values) |->
                [t \in 1..Len(da.time) |-> PctTable[da.values[k][t], total[1]]]]]

\* variance / variance.sel(uncertainty="total") * 100, aligned on time
Normalize(da) ==
    LET total == SelUncertainty(da, "total")
    IN  [da EXCEPT !.values =
            [k \in 1..Len(da.values) |->
                [t \in 1..Len(da.time) |-> PctTable[da.values[k][t], total[t]]]]]

DigitChars == <<"0", "1", "2", "3", "4", "5", "6", "7", "8", "9">>

\* int(ref) for a string of decimal digits, held as its characters
int(chars) ==
    LET f[k \in 0..Len(chars)] ==
            IF k = 0 THEN 0
            ELSE f[k - 1] * 10
                 + (CHOOSE d \in 0..9 : DigitChars[d + 1] = chars[k])
    IN  f[Len(chars)]

\* the characters as one string
Str(chars) ==
    LET f[k \in 0..Len(chars)] == IF k = 0 THEN "" ELSE f[k - 1] \o chars[k]
    IN  f[Len(chars)]

YearEnd(year) == [year |-> year, month |-> 12, day |-> 31]

\* the first instant of the year a partial date string names
Timestamp(ref) == [year |-> int(ref), month |-> 1, day |-> 1]

DateLe(p, q) ==
    \/ p.year < q.year
    \/ p.year = q.year /\ p.month < q.month
    \/ p.year = q.year /\ p.month = q.month /\ p.day <= q.day

\* a slice that keeps only the time points after the reference year
SelTimeAfter(da, ref) ==
    LET first == 1 + Cardinality({t \in 1..Len(da.time) : da.time[t].year <= int(ref)})
        last == Len(da.time)
    IN  [da EXCEPT !.time = SubSeq(da.time, first, last),
                   !.values = [k \in 1..Len(da.values) |->
                                  SubSeq(da.values[k], first, last)],
                   !.coords = [c \in DOMAIN da.coords |->
                                  [da.coords[c] EXCEPT
                                      !.values = SubSeq(da.coords[c].values, first, last)]]]

\* da.sel(time=slice(ref, None)) on a sorted time axis
SelTimeFrom(da, ref) ==
    LET first == 1 + Cardinality({t \in 1..Len(da.time) :
                                      ~DateLe(Timestamp(ref), da.time[t])})
        last == Len(da.time)
    IN  [da EXCEPT !.time = SubSeq(da.time, first, last),
                   !.values = [k \in 1..Len(da.values) |->
                                  SubSeq(da.values[k], first, last)],
                   !.coords = [c \in DOMAIN da.coords |->
                                  [da.coords[c] EXCEPT
                                      !.values = SubSeq(da.coords[c].values, first, last)]]]

\* a helper that returns the lead time and leaves da without the coordinate
lead_time_only(da, ref) ==
    [da |-> da,
     lead_time |-> [t \in 1..Len(da.time) |-> da.time[t].year - int(ref)]]

\* add_lead_time_coord(da, ref): the array as the call leaves it, and the
\* value returned
add_lead_time_coord(da, ref) ==
    LET lead_time == [t \in 1..Len(da.time) |-> da.time[t].year - int(ref)]
    IN  [da |-> [da EXCEPT !.coords =
                    ("Lead time" :> [values |-> lead_time,
                                     units |-> "years from " \o Str(ref)])
                        @@ da.coords],
         lead_time |-> lead_time]

Broadcast(v, n) == [t \in 1..n |-> v]

\* bands whose second edge is the scenario fraction alone
StackFlat(da) ==
    [y1 |-> SelUncertainty(da, "model"), y2 |-> SelUncertainty(da, "scenario")]

\* y1 and y2, the upper edges of the model and of the scenario band
Stack(da) ==
    LET y1 == SelUncertainty(da, "model")
        sc == SelUncertainty(da, "scenario")
    IN  [y1 |-> y1, y2 |-> [t \in 1..Len(da.time) |-> AddTable[sc[t], y1[t]]]]

\* ax.fill_between(x, lower, upper, color=color)
FillBetween(x, lower, upper, color) ==
    [x |-> x, lower |-> lower, upper |-> upper, color |-> color]

Bind(h, id, obj) == (id :> obj) @@ h

NoFrame == [variance |-> "none", ref |-> <<>>, da |-> "none", lead_time |-> <<>>]
NewFrame(ref) == [variance |-> "variance", ref |-> ref, da |-> "none", lead_time |-> <<>>]

\* ------------------------------------------- .github/workflows/dependency-review.yml
\* on:
on == {"pull_request"}

\* jobs.dependency-review.steps
Steps ==
    <<[name |-> "Harden Runner", continue_on_error |-> FALSE],
      [name |-> "Start Energy Measurement", continue_on_error |-> FALSE],
      [name |-> "Checkout Repository", continue_on_error |-> FALSE],
      [name |-> "Dependency Review", continue_on_error |-> FALSE],
      [name |-> "Energy Measurement", continue_on_error |-> TRUE],
      [name |-> "Show Energy Results", continue_on_error |-> TRUE]>>

\* repository events; a pull_request trigger without `types` listens to
\* the activity types opened, synchronize and reopened
Events ==
    {[name |-> "pull_request", type |-> "opened"],
     [name |-> "pull_request", type |-> "synchronize"],
     [name |-> "pull_request", type |-> "reopened"],
     [name |-> "pull_request", type |-> "closed"],
     [name |-> "pull_request_target", type |-> "opened"],
     [name |-> "push", type |-> "none"],
     [name |-> "workflow_dispatch", type |-> "none"],
     [name |-> "schedule", type |-> "none"]}

Triggers(event) ==
    /\ event.name \in on
    /\ event.name = "pull_request" => event.type \in {"opened", "synchronize", "reopened"}

\* a conclusion that ignores continue-on-error
ConclusionStrict(step, outcome) == outcome

\* the conclusion of a step from its outcome
Conclusion(step, outcome) ==
    IF outcome = "failure" /\ step.continue_on_error THEN "success" ELSE outcome

\* the default step condition, success(): no earlier step has concluded in failure
Success == \A k \in 1..Len(stepLog) : stepLog[k].conclusion # "failure"

InitIdleWorkflow ==
    /\ wfEvent = [name |-> "none", type |-> "none"]
    /\ wfState = "not triggered"
    /\ stepIdx = 0
    /\ stepBusy = FALSE
    /\ stepLog = <<>>
    /\ jobConclusion = "none"

InitWorkflow ==
    /\ models = <<>>
    /\ members = <<>>
    /\ scenarios = <<>>
    /\ pc = "done"
    /\ mi = 1
    /\ si = 1
    /\ inflight = <<>>
    /\ issued = <<>>
    /\ data = <<>>
    /\ running = "none"
    /\ started = <<>>
    /\ completed = <<>>
    /\ err = "none"
    /\ uncertainties = <<>>
    /\ heap = <<>>
    /\ frame = NoFrame
    /\ gpc = "idle"
    /\ fills = <<>>
    /\ drawn = <<>>
    /\ wfEvent \in Events
    /\ wfState = "waiting"
    /\ stepIdx = 0
    /\ stepBusy = FALSE
    /\ stepLog = <<>>
    /\ jobConclusion = "none"

\* the event is matched against `on`; a match starts the job
Dispatch ==
    /\ wfState = "waiting"
    /\ IF Triggers(wfEvent)
       THEN wfState' = "running" /\ stepIdx' = 1
       ELSE wfState' = "not triggered" /\ stepIdx' = stepIdx
    /\ UNCHANGED <<wfEvent, stepBusy, stepLog, jobConclusion>>
    /\ UNCHANGED <<pipeVars, graphVars>>

\* the next step is reached: it starts, or is skipped after a failure
StepStart ==
    /\ wfState = "running"
    /\ ~stepBusy
    /\ stepIdx <= Len(Steps)
    /\ IF Success
       THEN /\ stepBusy' = TRUE
            /\ UNCHANGED <<stepIdx, stepLog>>
       ELSE /\ stepLog' = Append(stepLog, [name |-> Steps[stepIdx].name,
                                            outcome |-> "skipped",
                                            conclusion |-> "skipped"])
            /\ stepIdx' = stepIdx + 1
            /\ UNCHANGED stepBusy
    /\ UNCHANGED <<wfEvent, wfState, jobConclusion>>
    /\ UNCHANGED <<pipeVars, graphVars>>

\* the executing step ends in success or failure
StepFinish ==
    /\ wfState = "running"
    /\ stepBusy
    /\ \E outcome \in {"success", "failure"} :
        stepLog' = Append(stepLog, [name |-> Steps[stepIdx].name,
                                    outcome |-> outcome,
                                    conclusion |-> Conclusion(Steps[stepIdx], outcome)])
    /\ stepIdx' = stepIdx + 1
    /\ stepBusy' = FALSE
    /\ UNCHANGED <<wfEvent, wfState, jobConclusion>>
    /\ UNCHANGED <<pipeVars, graphVars>>

\* all steps gone through: the job concludes
JobComplete ==
    /\ wfState = "running"
    /\ stepIdx > Len(Steps)
    /\ jobConclusion' = IF Success THEN "success" ELSE "failure"
    /\ wfState' = "completed"
    /\ UNCHANGED <<wfEvent, stepIdx, stepBusy, stepLog>>
    /\ UNCHANGED <<pipeVars, graphVars>>

NextWorkflow ==
    \/ Dispatch
    \/ StepStart
    \/ StepFinish
    \/ JobComplete

SpecWorkflow == InitWorkflow /\ [][NextWorkflow]_vars

\* ------------------------------------------------ cell 8, statement by statement
\* da = variance / variance.sel(uncertainty="total") * 100
GraphNormalize ==
    /\ gpc = "normalize"
    /\ heap' = Bind(heap, "frac", Normalize(heap[frame.variance]))
    /\ frame' = [frame EXCEPT !.da = "frac"]
    /\ gpc' = "select"
    /\ UNCHANGED <<fills, drawn>>
    /\ UNCHANGED <<pipeVars, wfVars>>

\* da = da.sel(time=slice(ref, None))
GraphSelect ==
    /\ gpc = "select"
    /\ heap' = Bind(heap, "sel", SelTimeFrom(heap[frame.da], frame.ref))
    /\ frame' = [frame EXCEPT !.da = "sel"]
    /\ gpc' = "lead time"
    /\ UNCHANGED <<fills, drawn>>
    /\ UNCHANGED <<pipeVars, wfVars>>

\* the helper applied to the caller's array instead of the local one
GraphLeadTimeOnInput ==
    /\ gpc = "lead time"
    /\ LET r == add_lead_time_coord(heap[frame.variance], frame.ref)
       IN  /\ heap' = Bind(heap, frame.variance, r.da)
           /\ frame' = [frame EXCEPT !.lead_time =
                            add_lead_time_coord(heap[frame.da], frame.ref).lead_time]
    /\ gpc' = "draw"
    /\ UNCHANGED <<fills, drawn>>
    /\ UNCHANGED <<pipeVars, wfVars>>

\* lead_time = add_lead_time_coord(da, ref)
GraphLeadTime ==
    /\ gpc = "lead time"
    /\ LET r == add_lead_time_coord(heap[frame.da], frame.ref)
       IN  /\ heap' = Bind(heap, frame.da, r.da)
           /\ frame' = [frame EXCEPT !.lead_time = r.lead_time]
    /\ gpc' = "draw"
    /\ UNCHANGED <<fills, drawn>>
    /\ UNCHANGED <<pipeVars, wfVars>>

\* y1, y2 and the three fill_between calls
GraphDraw ==
    /\ gpc = "draw"
    /\ LET da == heap[frame.da]
           n == Len(da.time)
           st == Stack(da)
       IN  fills' =
             <<FillBetween(frame.lead_time, Broadcast(FZero, n), st.y1, colors.model),
               FillBetween(frame.lead_time, st.y1, st.y2, colors.scenario),
               FillBetween(frame.lead_time, st.y2, Broadcast(F100, n),
                           colors.variability)>>
    /\ gpc' = "return"
    /\ UNCHANGED <<heap, frame, drawn>>
    /\ UNCHANGED <<pipeVars, wfVars>>

\* the lines, ticks, labels and limits, then return ax
GraphReturn ==
    /\ gpc = "return"
    /\ drawn' = Append(drawn, fills)
    /\ gpc' = "returned"
    /\ UNCHANGED <<heap, frame, fills>>
    /\ UNCHANGED <<pipeVars, wfVars>>

\* the same call once more, on the same input object
GraphCallAgain ==
    /\ gpc = "returned"
    /\ Len(drawn) < MaxCalls
    /\ heap' = [id \in {frame.variance} |-> heap[id]]
    /\ frame' = NewFrame(frame.ref)
    /\ fills' = <<>>
    /\ gpc' = "normalize"
    /\ UNCHANGED drawn
    /\ UNCHANGED <<pipeVars, wfVars>>

\* ------------------------------------------------------- cells 2, 4, 6 and 9
Ref2016 == <<"2", "0", "1", "6">>
Ref2017 == <<"2", "0", "1", "7">>
Ref2000 == <<"2", "0", "0", "0">>

\* what hawkins_sutton can return for the annual ensemble
PartitionResults ==
    {MakeVariance(<<YearEnd(2015), YearEnd(2016)>>, <<c, c>>) :
        c \in {<<1, 1, 1, 3>>, <<2, 9, 0, 11>>}}

NoVariance == <<>>

InitPipeline ==
    /\ models \in SeqsUpTo(ModelNames, MaxModels)
    /\ members \in SeqsUpTo(MemberNames, MaxModels)
    /\ scenarios \in SeqsUpTo(ScenarioNames, MaxScenarios)
    /\ pc = "loop"
    /\ mi = 1
    /\ si = 1
    /\ inflight = <<>>
    /\ issued = <<>>
    /\ data = <<>>
    /\ running = "none"
    /\ started = <<>>
    /\ completed = <<>>
    /\ err = "none"
    /\ uncertainties = NoVariance
    /\ heap = <<>>
    /\ frame = NoFrame
    /\ gpc = "idle"
    /\ fills = <<>>
    /\ drawn = <<>>
    /\ InitIdleWorkflow

\* the loop body up to the call of pd.read_csv(url, ...)
FetchIssue ==
    /\ pc = "loop"
    /\ mi <= Len(Zipped.pairs)
    /\ si <= Len(scenarios)
    /\ LET model == Zipped.pairs[mi][1]
           member == Zipped.pairs[mi][2]
           url == host \o PatFormat(model, scenarios[si], member)
       IN  /\ inflight' = Append(inflight, url)
           /\ issued' = Append(issued, url)
    /\ pc' = "fetching"
    /\ UNCHANGED <<models, members, scenarios, mi, si, data, running, started,
                   completed, err, uncertainties>>
    /\ UNCHANGED <<graphVars, wfVars>>

\* a loop body that swallows the exception and goes on with the next scenario
FetchReturnSkip ==
    /\ pc = "fetching"
    /\ \E outcome \in FetchOutcomes :
        /\ data' = IF outcome = "ok"
                   THEN Append(data, [model |-> Zipped.pairs[mi][1],
                                      scenario |-> scenarios[si],
                                      source |-> issued[Len(issued)]])
                   ELSE data
        /\ err' = IF outcome = "ok" THEN err ELSE outcome
    /\ si' = si + 1
    /\ pc' = "loop"
    /\ inflight' = Tail(inflight)
    /\ UNCHANGED <<models, members, scenarios, mi, issued, running, started,
                   completed, uncertainties>>
    /\ UNCHANGED <<graphVars, wfVars>>

\* read_csv returns (or raises); on return the series is tagged and appended
FetchReturn ==
    /\ pc = "fetching"
    /\ \E outcome \in FetchOutcomes :
        IF outcome = "ok"
        THEN /\ data' = Append(data, [model |-> Zipped.pairs[mi][1],
                                      scenario |-> scenarios[si],
                                      source |-> issued[Len(issued)]])
             /\ si' = si + 1
             /\ pc' = "loop"
             /\ err' = err
        ELSE /\ pc' = "error"
             /\ err' = outcome
             /\ UNCHANGED <<data, si>>
    /\ inflight' = Tail(inflight)
    /\ UNCHANGED <<models, members, scenarios, mi, issued, running, started,
                   completed, uncertainties>>
    /\ UNCHANGED <<graphVars, wfVars>>

\* the inner for loop is exhausted: next (model, member) pair
NextModel ==
    /\ pc = "loop"
    /\ mi <= Len(Zipped.pairs)
    /\ si > Len(scenarios)
    /\ mi' = mi + 1
    /\ si' = 1
    /\ UNCHANGED <<models, members, scenarios, pc, inflight, issued, data,
                   running, started, completed, err, uncertainties>>
    /\ UNCHANGED <<graphVars, wfVars>>

\* zip is exhausted: the cell ends, or zip raises
LoopExit ==
    /\ pc = "loop"
    /\ mi > Len(Zipped.pairs)
    /\ IF Zipped.raises
       THEN pc' = "error" /\ err' = "ValueError"
       ELSE pc' = Stages[1] /\ err' = err
    /\ UNCHANGED <<models, members, scenarios, mi, si, inflight, issued, data,
                   running, started, completed, uncertainties>>
    /\ UNCHANGED <<graphVars, wfVars>>

\* a cell's library call is entered; the last cell calls the local function
StageCall ==
    /\ pc \in {Stages[k] : k \in 1..Len(Stages)}
    /\ running = "none"
    /\ running' = pc
    /\ started' = Append(started, pc)
    /\ IF pc = "plot"
       THEN /\ heap' = Bind(<<>>, "variance", uncertainties)
            /\ frame' = NewFrame(Ref2016)
            /\ gpc' = "normalize"
            /\ UNCHANGED <<fills, drawn>>
       ELSE UNCHANGED graphVars
    /\ UNCHANGED wfVars
    /\ UNCHANGED <<models, members, scenarios, pc, mi, si, inflight, issued,
                   data, completed, err, uncertainties>>

\* the call returns; the script moves to the next cell
StageReturn ==
    /\ running # "none"
    /\ running = "combine" => data # <<>>
    /\ running = "plot" => gpc = "returned"
    /\ completed' = Append(completed, running)
    /\ pc' = NextStage(running)
    /\ running' = "none"
    /\ IF running = "partition"
       THEN uncertainties' \in PartitionResults
       ELSE UNCHANGED uncertainties
    /\ UNCHANGED <<models, members, scenarios, mi, si, inflight, issued, data,
                   started, err>>
    /\ UNCHANGED <<graphVars, wfVars>>

\* a library call raises; nothing in the notebook catches it
StageRaise ==
    /\ running \in {"combine", "resample", "partition"}
    /\ pc' = "error"
    /\ err' = "raised in " \o running
    /\ running' = "none"
    /\ UNCHANGED <<models, members, scenarios, mi, si, inflight, issued, data,
                   started, completed, uncertainties>>
    /\ UNCHANGED <<graphVars, wfVars>>

Init == InitPipeline

Next ==
    \/ FetchIssue
    \/ FetchReturn
    \/ NextModel
    \/ LoopExit
    \/ StageCall
    \/ StageReturn
    \/ StageRaise
    \/ GraphNormalize
    \/ GraphSelect
    \/ GraphLeadTime
    \/ GraphDraw
    \/ GraphReturn

Spec == Init /\ [][Next]_vars

\* ------------------------------------- the plotting function on arbitrary input
Years == 2015..2017
TimeAxes ==
    {[t \in 1..Len(ys) |-> YearEnd(ys[t])] :
        ys \in {q \in SeqsUpTo(Years, MaxTimes) :
                   Len(q) > 0 /\ \A t \in 1..(Len(q) - 1) : q[t] < q[t + 1]}}
GraphInputs ==
    UNION {{MakeVariance(time, cols) : cols \in [1..Len(time) -> Columns]} :
              time \in TimeAxes}
Refs == {Ref2000, Ref2016, Ref2017}

InitGraph ==
    /\ models = <<>>
    /\ members = <<>>
    /\ scenarios = <<>>
    /\ pc = "plot"
    /\ mi = 1
    /\ si = 1
    /\ inflight = <<>>
    /\ issued = <<>>
    /\ data = <<>>
    /\ running = "plot"
    /\ started = <<"plot">>
    /\ completed = <<>>
    /\ err = "none"
    /\ uncertainties \in GraphInputs
    /\ heap = Bind(<<>>, "variance", uncertainties)
    /\ frame \in {NewFrame(r) : r \in Refs}
    /\ gpc = "normalize"
    /\ fills = <<>>
    /\ drawn = <<>>
    /\ InitIdleWorkflow

NextGraph ==
    \/ GraphNormalize
    \/ GraphSelect
    \/ GraphLeadTime
    \/ GraphDraw
    \/ GraphReturn
    \/ GraphCallAgain

SpecGraph == InitGraph /\ [][NextGraph]_vars

\* =================================================================== claims
FetchFailures == FetchOutcomes \ {"ok"}

\* the fetch loop has run to its end
FetchLoopDone == pc = Stages[1] \/ started # <<>>

\* a fetch raised
FetchFailed == err \in FetchFailures

\* C1: with models and members of equal length, when the fetch loop has ended
\* data holds len(models) * len(scenarios) entries in model-major order; the
\* entry at position (i, j) carries models[i] and scenarios[j] and was read
\* from host + "CMIP6_<models[i]>_<scenarios[j]>_<members[i]>.csv"; the URLs
\* issued are exactly those, once each and in that order.
C1_FetchPerPair ==
    (FetchLoopDone /\ Len(models) = Len(members)) =>
        /\ Len(data) = Len(models) * Len(scenarios)
        /\ Len(issued) = Len(data)
        /\ \A i \in 1..Len(models) : \A j \in 1..Len(scenarios) :
            LET k == (i - 1) * Len(scenarios) + j
            IN  /\ data[k].model = models[i]
                /\ data[k].scenario = scenarios[j]
                /\ data[k].source =
                       host \o "CMIP6_" \o models[i] \o "_" \o scenarios[j]
                            \o "_" \o members[i] \o ".csv"
                /\ issued[k] = data[k].source

C1_Witness ==
    /\ FetchLoopDone
    /\ Len(models) = MaxModels
    /\ Len(members) = MaxModels
    /\ Len(scenarios) = MaxScenarios
    /\ models[1] # models[2]
    /\ members[1] # members[2]
    /\ scenarios[1] # scenarios[2]
    /\ Len(data) = MaxModels * MaxScenarios

IsPrefix(p, q) == Len(p) <= Len(q) /\ \A k \in 1..Len(p) : p[k] = q[k]

\* C2: the cells run in the order combine, resample, partition, plot, each
\* entered only when the one before has returned; no cell is entered before
\* every fetch of the loop has returned; at most one fetch is in flight, and
\* a fetch is in flight only while the loop is blocked on it.
C2_Sequential ==
    /\ Len(inflight) <= 1
    /\ Len(inflight) = 1 <=> pc = "fetching"
    /\ Len(inflight) = 1 =>
           /\ inflight[1] = issued[Len(issued)]
           /\ Len(issued) = Len(data) + 1
    /\ IsPrefix(started, Stages)
    /\ IsPrefix(completed, Stages)
    /\ Len(completed) <= Len(started)
    /\ Len(started) <= Len(completed) + 1
    /\ running # "none" <=>
           (Len(started) = Len(completed) + 1 /\ pc \notin {"error", "done"})
    /\ running # "none" => running = started[Len(started)]
    /\ started # <<>> =>
           /\ inflight = <<>>
           /\ Len(data) = Len(issued)
           /\ Len(issued) = Len(Zipped.pairs) * Len(scenarios)
    /\ gpc \notin {"idle", "returned"} => running = "plot"
    /\ pc = "done" => completed = Stages

C2_Witness ==
    /\ pc = "done"
    /\ Len(issued) = MaxModels * MaxScenarios
    /\ drawn # <<>>

\* C3: once a fetch has failed the run is in the error state and takes no
\* further step: the fetch is not in flight again, the failed URL is the last
\* one ever issued, data holds the entries of the fetches before it and
\* nothing for the failed pair, and no cell after the loop was entered.
C3_FailurePropagates ==
    /\ [](FetchFailed =>
            /\ pc = "error"
            /\ inflight = <<>>
            /\ running = "none"
            /\ started = <<>>
            /\ completed = <<>>
            /\ gpc = "idle"
            /\ Len(issued) = Len(data) + 1
            /\ \A k \in 1..Len(data) : data[k].source = issued[k])
    /\ [][~FetchFailed]_vars

C3_Witness ==
    /\ FetchFailed
    /\ Len(data) = 1
    /\ Len(Zipped.pairs) * Len(scenarios) = MaxModels * MaxScenarios

\* C9: models and members of different lengths are not an error: no
\* ValueError ends the run, and when the loop has ended it has issued
\* min(len(models), len(members)) * len(scenarios) fetches, for the models and
\* members at the first min(len(models), len(members)) indices only.
C9_ZipTruncates ==
    LET n == IF Len(models) < Len(members) THEN Len(models) ELSE Len(members)
    IN  Len(models) # Len(members) =>
            /\ err # "ValueError"
            /\ FetchLoopDone =>
                /\ Len(issued) = n * Len(scenarios)
                /\ Len(data) = n * Len(scenarios)
                /\ \A k \in 1..Len(data) :
                    LET i == ((k - 1) \div Len(scenarios)) + 1
                        j == ((k - 1) % Len(scenarios)) + 1
                    IN  /\ i <= n
                        /\ data[k].model = models[i]
                        /\ data[k].scenario = scenarios[j]
                        /\ issued[k] =
                               host \o "CMIP6_" \o models[i] \o "_" \o scenarios[j]
                                    \o "_" \o members[i] \o ".csv"

C9_Witness ==
    /\ FetchLoopDone
    /\ Len(models) = MaxModels
    /\ Len(members) = 1
    /\ Len(scenarios) = MaxScenarios
    /\ models[1] # models[2]
    /\ Len(data) = MaxScenarios
    /\ pc = "done"

\* ------------------------------------------------ claims about the plot function
\* the array the caller passed
Input == heap[frame.variance]

\* the reference year and its text, read off the argument
RefYearOf(chars) ==
    CASE chars = Ref2000 -> 2000
      [] chars = Ref2016 -> 2016
      [] chars = Ref2017 -> 2017
RefTextOf(chars) ==
    CASE chars = Ref2000 -> "2000"
      [] chars = Ref2016 -> "2016"
      [] chars = Ref2017 -> "2017"

\* C4: the normalized array has the time axis and the kinds of the input, and
\* its value for kind k at time t is variance[k, t] / variance[total, t] * 100
\* with the total of the same time step; the row of the kind "total" is
\* exactly 100 wherever the total variance is not zero.
C4_NormalizedPerTimeStep ==
    "frac" \in DOMAIN heap =>
        LET total == SelUncertainty(Input, "total")
            frac == heap["frac"]
        IN  /\ frac.time = Input.time
            /\ frac.uncertainty = Input.uncertainty
            /\ \A k \in 1..Len(Kinds) : \A t \in 1..Len(Input.time) :
                   frac.values[k][t] = PctTable[Input.values[k][t], total[t]]
            /\ \A t \in 1..Len(Input.time) :
                   total[t] # 0 => SelUncertainty(frac, "total")[t] = F100

C4_Witness ==
    /\ "frac" \in DOMAIN heap
    /\ SelUncertainty(Input, "total") = <<3, 11>>
    /\ SelUncertainty(heap["frac"], "total") = <<F100, F100>>
    /\ SelUncertainty(heap["frac"], "model")[1] # SelUncertainty(heap["frac"], "model")[2]

\* what the call has drawn so far
Drawn == fills # <<>>
\* the input time steps that are not drawn
Offset == Len(Input.time) - Len(fills[1].x)

\* C5: the time points drawn are exactly the input time points whose year is
\* at least the reference year, in the order of the time axis; each is drawn
\* with its own data at lead time year - reference year, which is never
\* negative and is 0 for a point in the reference year.
C5_LeadTimeAxis ==
    Drawn =>
        LET R == RefYearOf(frame.ref)
            x == fills[1].x
            total == SelUncertainty(Input, "total")
        IN  /\ Len(x) = Cardinality({u \in 1..Len(Input.time) : Input.time[u].year >= R})
            /\ \A b \in 1..Len(fills) :
                   /\ fills[b].x = x
                   /\ Len(fills[b].lower) = Len(x)
                   /\ Len(fills[b].upper) = Len(x)
            /\ \A t \in 1..Len(x) :
                   LET u == t + Offset
                   IN  /\ Input.time[u].year >= R
                       /\ x[t] = Input.time[u].year - R
                       /\ x[t] \in Nat
                       /\ Input.time[u].year = R => x[t] = 0
                       /\ fills[1].upper[t] =
                              PctTable[SelUncertainty(Input, "model")[u], total[u]]
            /\ \A t1, t2 \in 1..Len(x) : t1 < t2 => x[t1] < x[t2]

C5_Witness ==
    /\ Drawn
    /\ frame.ref = Ref2016
    /\ Input.time = <<YearEnd(2015), YearEnd(2016)>>
    /\ fills[1].x = <<0>>

\* C7: the step that calls add_lead_time_coord changes the array it is given
\* and nothing else: afterwards that array carries a coordinate "Lead time"
\* whose values are the returned lead times, year(t) - int(ref) for every time
\* point, with units "years from <ref>", while its data values, its time axis
\* and its uncertainty coordinate are as before.
C7_LeadTimeInPlace ==
    [][gpc = "lead time" =>
          LET before == heap[frame.da]
              after == heap'[frame.da]
          IN  /\ DOMAIN heap' = DOMAIN heap
              /\ \A id \in DOMAIN heap \ {frame.da} : heap'[id] = heap[id]
              /\ after.values = before.values
              /\ after.time = before.time
              /\ after.uncertainty = before.uncertainty
              /\ DOMAIN after.coords = DOMAIN before.coords \cup {"Lead time"}
              /\ after.coords["Lead time"].values = frame'.lead_time
              /\ after.coords["Lead time"].units
                     = "years from " \o RefTextOf(frame.ref)
              /\ Len(frame'.lead_time) = Len(before.time)
              /\ \A t \in 1..Len(before.time) :
                     frame'.lead_time[t] = before.time[t].year - RefYearOf(frame.ref)]_vars

C7_Witness ==
    /\ gpc = "draw"
    /\ frame.da = "sel"
    /\ frame.ref = Ref2016
    /\ frame.lead_time = <<0, 1>>
    /\ heap["sel"].coords["Lead time"].values = <<0, 1>>
    /\ heap["sel"].coords["Lead time"].units = "years from 2016"

\* 100 - y in float64
Y2Values == {AddTable[x, y] : x \in PctValues, y \in PctValues}
TopTable == [x \in {F100}, y \in Y2Values |-> FSub(x, y)]
Minus100(y) == IF y \in Y2Values THEN TopTable[F100, y] ELSE FSub(F100, y)
DiffSet ==
    {LET top == TopTable[F100, AddTable[PctTable[c[2], c[4]], PctTable[c[1], c[4]]]]
         pv == PctTable[c[3], c[4]]
     IN  <<top, pv, FSub(top, pv)>> : c \in Columns}
Diff(x, y) ==
    IF \E e \in DiffSet : e[1] = x /\ e[2] = y
    THEN (CHOOSE e \in DiffSet : e[1] = x /\ e[2] = y)[3]
    ELSE FSub(x, y)

\* |d| < 2^-40
Tiny(d) == d.cls = "zero" \/ (d.cls = "fin" /\ d.exp + MantBits <= 0 - 40)

\* the input time step u has a positive total equal to the sum of its parts
ConsistentAt(u) ==
    /\ SelUncertainty(Input, "total")[u] > 0
    /\ SelUncertainty(Input, "model")[u] + SelUncertainty(Input, "scenario")[u]
           + SelUncertainty(Input, "variability")[u]
         = SelUncertainty(Input, "total")[u]

\* the band edges drawn at point t join without gap: 0, y1, y2, 100, with y1
\* the model percentage and y2 the scenario percentage added to it
EdgesJoin(t) ==
    /\ fills[1].lower[t] = FZero
    /\ fills[1].upper[t] = SelUncertainty(heap[frame.da], "model")[t]
    /\ fills[2].lower[t] = fills[1].upper[t]
    /\ fills[2].upper[t] = AddTable[SelUncertainty(heap[frame.da], "scenario")[t],
                                    fills[1].upper[t]]
    /\ fills[3].lower[t] = fills[2].upper[t]
    /\ fills[3].upper[t] = F100

\* C8 as stated: at every drawn time step of a consistent input the edges
\* satisfy 0 <= y1 <= y2 <= 100 and 100 - y2 equals the variability percentage.
C8_StackExact ==
    Drawn =>
        \A t \in 1..Len(fills[1].x) :
            ConsistentAt(t + Offset) =>
                LET y1 == fills[1].upper[t]
                    y2 == fills[2].upper[t]
                IN  /\ EdgesJoin(t)
                    /\ FLe(FZero, y1)
                    /\ FLe(y1, y2)
                    /\ FLe(y2, F100)
                    /\ Minus100(y2) = SelUncertainty(heap[frame.da], "variability")[t]

\* C8, amended: at every drawn time step of a consistent input the edges
\* satisfy 0 <= y1 <= y2, y2 exceeds 100 by less than 2^-40, and 100 - y2
\* differs from the variability percentage by less than 2^-40.
C8_StackUpToRounding ==
    Drawn =>
        \A t \in 1..Len(fills[1].x) :
            ConsistentAt(t + Offset) =>
                LET y1 == fills[1].upper[t]
                    y2 == fills[2].upper[t]
                IN  /\ EdgesJoin(t)
                    /\ FLe(FZero, y1)
                    /\ FLe(y1, y2)
                    /\ FLe(y2, F100) \/ Tiny(Minus100(y2))
                    /\ Tiny(Diff(Minus100(y2),
                                 SelUncertainty(heap[frame.da], "variability")[t]))

C8_Witness ==
    /\ Drawn
    /\ Len(fills[1].x) = 2
    /\ Offset = 0
    /\ [k \in 1..Len(Kinds) |-> Input.values[k][1]] = <<2, 9, 0, 11>>
    /\ [k \in 1..Len(Kinds) |-> Input.values[k][2]] = <<1, 1, 1, 3>>
    /\ ~FLe(fills[2].upper[1], F100)
    /\ Minus100(fills[2].upper[2]) # SelUncertainty(heap[frame.da], "variability")[2]

\* C10: the array the caller passed is never changed by the call: it keeps the
\* values, time axis and uncertainty coordinate it came with and never gets a
\* "Lead time" coordinate; every further call on it draws the bands the first
\* call drew.
C10_InputUntouched ==
    /\ Input = uncertainties
    /\ "Lead time" \notin DOMAIN Input.coords
    /\ \A k \in 1..Len(drawn) : drawn[k] = drawn[1]

C10_Witness ==
    /\ Len(drawn) = 2
    /\ gpc = "returned"
    /\ Len(drawn[2][1].x) = 2
    /\ "Lead time" \in DOMAIN heap["sel"].coords

\* ------------------------------------------------------ claim about the workflow
StepNames ==
    <<"Harden Runner", "Start Energy Measurement", "Checkout Repository",
      "Dependency Review", "Energy Measurement", "Show Energy Results">>

\* C6: the job runs only for pull_request events; its steps are gone through
\* in the listed order, one at a time; the job concludes in failure exactly
\* when one of the first four steps failed, so whenever Dependency Review
\* failed and never because of the two energy-reporting steps.
C6_DependencyReviewJob ==
    /\ wfState \in {"running", "completed"} => wfEvent.name = "pull_request"
    /\ Len(stepLog) <= Len(StepNames)
    /\ \A k \in 1..Len(stepLog) : stepLog[k].name = StepNames[k]
    /\ wfState = "running" => stepIdx = Len(stepLog) + 1
    /\ wfState = "completed" =>
           /\ Len(stepLog) = Len(StepNames)
           /\ jobConclusion \in {"success", "failure"}
           /\ jobConclusion = "failure" <=>
                  \E k \in 1..4 : stepLog[k].outcome = "failure"
           /\ stepLog[4].outcome = "failure" => jobConclusion = "failure"

C6_Witness ==
    /\ wfState = "completed"
    /\ stepLog[5].outcome = "failure"
    /\ stepLog[6].outcome = "failure"
    /\ jobConclusion = "success"

====
